---- MODULE Spec2Model ----
(***************************************************************************)
(* Model of MySky's forecast controller (the useWeather hook) and of the   *)
(* in-memory weather cache it reads and writes (services/cache.ts).        *)
(*                                                                         *)
(* The hook is modelled while mounted.  One action stands for one event of *)
(* the JavaScript event loop: a call of setLocation (with the re-render    *)
(* and the effect it triggers), a call of refresh, the resumption of a     *)
(* suspended load() after its fetch settled, or the passing of time.       *)
(***************************************************************************)
EXTENDS Integers, FiniteSets, Sequences, TLC

(* ------------------------------ bounds -------------------------------- *)

\* Number of fetchWeather calls a behaviour may issue.
MaxFetches == 3

\* The clock runs over MaxClock freshness windows.
MaxClock == 1

(* ----------------------------- constants ------------------------------ *)

\* const CACHE_DURATION = 10 * 60 * 1000; // 10 minutes
CACHE_DURATION == 10 * 60 * 1000

\* data?: WeatherData -- the value of an absent bundle (JavaScript undefined).
\* Bundles are named by the positive number of the fetch that produced them.
Undefined == 0

\* abortControllerRef.current === null
Null == 0

\* error?: string -- the value of an absent error message.
NoError == "<undefined>"

\* location?: Location -- the value of an absent location.
NoLocation == [id |-> "<none>", obj |-> "<none>"]

\* Location objects the presentation layer can hand to setLocation: `id` is
\* Location.id (the cache key), `obj` the identity of the JavaScript object
\* (two search results for the same place are distinct objects, same id).
Locations ==
    { [id |-> "berlin", obj |-> "o1"],
      [id |-> "berlin", obj |-> "o2"],
      [id |-> "tokyo",  obj |-> "o3"] }

LocationIds == { l.id : l \in Locations }

\* Values fetchWeather can reject with: an Error carrying a message, or a
\* thrown value that is no Error.
Rejections ==
    { [isError |-> TRUE,  message |-> "Network request failed"],
      [isError |-> FALSE, message |-> "<not an Error>"] }

\* Instants Date.now() is observed at while the hook runs: when the module
\* is loaded, and the last millisecond an entry written then is fresh and the
\* first one it is stale.
Instants == { 0, CACHE_DURATION, CACHE_DURATION + 1 }

\* Instants Date.now() is observed at when the cache is called directly: the
\* start, and the last millisecond of each freshness window and the first
\* one after it.
Times ==
    {0} \cup UNION { { k * CACHE_DURATION, k * CACHE_DURATION + 1 } : k \in 1..MaxClock }

\* Bundles the cache is exercised with directly.
Bundles == 1..MaxFetches

(* ------------------------------- state -------------------------------- *)

VARIABLES
    location,            \* useState: the selected Location or NoLocation
    data,                \* useState: the bundle shown, or Undefined
    loading,             \* useState
    error,               \* useState: message or NoError
    abortControllerRef,  \* useRef: number of the fetch whose controller it holds, or Null
    fetches,             \* the load() calls suspended at `await fetchWeather`, by number
    issued,              \* how many fetchWeather calls were made so far
    cache,               \* services/cache.ts: the module's Map, id -> CacheEntry
    now,                 \* Date.now()
    ret,                 \* what the last direct getCachedWeather call returned
    stored,              \* id -> the entry last written by setCachedWeather and not cleared since
    latest,              \* what the most recent setLocation/refresh call did
    last,                \* the event that produced this state
    args,                \* the arguments a function of the view layer is called with
    result,              \* << >> before that call, << its return value >> after it
    query,               \* App useState: the text of the search field
    searching,           \* App useState
    searchResults,       \* App useState: the candidates listed
    searchError,         \* App useState: message or NoError
    lastSearchQueryRef,  \* App useRef: the term of the last search started
    timeout,             \* the debounce timer: << >> or << the term it will search >>
    searches,            \* the performSearch calls suspended at `await searchLocations`, by number
    searchIssued,        \* how many searchLocations calls were made so far
    searchLast           \* the event of the search panel that produced this state

vars == << location, data, loading, error, abortControllerRef, fetches, issued,
           cache, now, ret, stored, latest, last, args, result,
           query, searching, searchResults, searchError, lastSearchQueryRef,
           timeout, searches, searchIssued, searchLast >>

ctlVars == << location, data, loading, error, abortControllerRef, fetches, issued >>

hookVars == << ctlVars, cache, now, ret, stored, latest, last >>

viewVars == << args, result >>

searchVars == << query, searching, searchResults, searchError,
                 lastSearchQueryRef, timeout, searches, searchIssued,
                 searchLast >>

(* ------------------------ services/cache.ts --------------------------- *)

EmptyMap == [ id \in {} |-> [data |-> Undefined, timestamp |-> 0] ]

MapDelete(m, key) == [ id \in DOMAIN m \ {key} |-> m[id] ]

MapSet(m, key, entry) ==
    [ id \in DOMAIN m \cup {key} |-> IF id = key THEN entry ELSE m[id] ]

\* A plausible slip: the entry expires once it is exactly CACHE_DURATION old.
getCachedWeatherInclusive(c, locationId, t) ==
    IF locationId \notin DOMAIN c
    THEN [ret |-> Undefined, cache |-> c]
    ELSE IF t - c[locationId].timestamp >= CACHE_DURATION
         THEN [ret |-> Undefined, cache |-> MapDelete(c, locationId)]
         ELSE [ret |-> c[locationId].data, cache |-> c]

\* A plausible slip: the stale entry is reported absent but left in the map.
getCachedWeatherKeepsStale(c, locationId, t) ==
    IF locationId \notin DOMAIN c
    THEN [ret |-> Undefined, cache |-> c]
    ELSE IF t - c[locationId].timestamp > CACHE_DURATION
         THEN [ret |-> Undefined, cache |-> c]
         ELSE [ret |-> c[locationId].data, cache |-> c]

\* getCachedWeather(locationId) at Date.now() = t: the value returned and the
\* map it leaves behind.
getCachedWeather(c, locationId, t) ==
    IF locationId \notin DOMAIN c
    THEN [ret |-> Undefined, cache |-> c]
    ELSE IF t - c[locationId].timestamp > CACHE_DURATION
         THEN [ret |-> Undefined, cache |-> MapDelete(c, locationId)]
         ELSE [ret |-> c[locationId].data, cache |-> c]

\* A plausible slip: an entry that is already there is kept, not overwritten.
setCachedWeatherKeepsExisting(c, locationId, d, t) ==
    IF locationId \in DOMAIN c THEN c
    ELSE MapSet(c, locationId, [data |-> d, timestamp |-> t])

\* setCachedWeather(locationId, data) at Date.now() = t.
setCachedWeather(c, locationId, d, t) ==
    MapSet(c, locationId, [data |-> d, timestamp |-> t])

\* clearCache()
clearCache(c) == EmptyMap

\* A plausible slip: the sweep also removes an entry exactly CACHE_DURATION old.
clearExpiredCacheInclusive(c, t) ==
    [ id \in { k \in DOMAIN c : ~(t - c[k].timestamp >= CACHE_DURATION) } |-> c[id] ]

\* clearExpiredCache() at Date.now() = t.
clearExpiredCache(c, t) ==
    [ id \in { k \in DOMAIN c : ~(t - c[k].timestamp > CACHE_DURATION) } |-> c[id] ]

(* ------------------------- hooks/useWeather --------------------------- *)

\* The hook's mutable state as one value, so that the steps of a handler
\* compose: the three useState cells the handlers write, the ref, the
\* suspended loads and the cache module's map.
HookState ==
    [ data |-> data, loading |-> loading, error |-> error,
      ref |-> abortControllerRef, fetches |-> fetches, issued |-> issued,
      cache |-> cache ]

\* abortControllerRef.current.abort(): controller k belongs to load() number
\* k and abort() sets its signal's `aborted`.  The ref may hold the
\* controller of a load() that has returned; aborting that one has no effect.
abort(fs, k) ==
    IF k \in DOMAIN fs THEN [fs EXCEPT ![k].aborted = TRUE] ELSE fs

\* if (abortControllerRef.current) { abortControllerRef.current.abort(); }
abortCurrent(s) ==
    IF s.ref # Null THEN [s EXCEPT !.fetches = abort(s.fetches, s.ref)] ELSE s

\* The load() call suspended at `await fetchWeather(location)`: the location
\* its closure holds and its AbortController's signal.  `by` records the
\* operation that started it.
NewFetch(loc, by) ==
    [ location |-> loc, aborted |-> FALSE, by |-> by ]

\* setLoading(true); setError(undefined); const abortController = new
\* AbortController(); abortControllerRef.current = abortController;
\* ... await fetchWeather(location)
startFetch(s, loc, by) ==
    [s EXCEPT !.loading = TRUE,
              !.error = NoError,
              !.fetches = MapSet(s.fetches, s.issued + 1, NewFetch(loc, by)),
              !.issued = s.issued + 1,
              !.ref = s.issued + 1]

\* load(), from its call up to `await fetchWeather(location)` (or to its
\* return, when it does not fetch), run with `location` = loc at time t.
load(s, loc, t, by) ==
    IF loc = NoLocation
    THEN [s EXCEPT !.data = Undefined, !.loading = FALSE, !.error = NoError]
    ELSE LET a   == abortCurrent(s)
             got == getCachedWeather(a.cache, loc.id, t)
             c   == [a EXCEPT !.cache = got.cache]
         IN  IF got.ret # Undefined
             THEN [c EXCEPT !.data = got.ret, !.loading = FALSE, !.error = NoError]
             ELSE startFetch(c, loc, by)

\* A plausible slip: the result is committed without looking at the signal.
resolvedIgnoringAbort(s, k, t) ==
    [s EXCEPT !.cache = setCachedWeather(s.cache, s.fetches[k].location.id, k, t),
              !.data = k]

\* try { const result = await fetchWeather(location);
\*       if (!abortController.signal.aborted) { setCachedWeather(...); setData(result); } }
\* for the load() numbered k, whose fetch resolved (with bundle k) at time t.
resolved(s, k, t) ==
    IF ~s.fetches[k].aborted
    THEN [s EXCEPT !.cache = setCachedWeather(s.cache, s.fetches[k].location.id, k, t),
                   !.data = k]
    ELSE s

\* err instanceof Error ? err.message : "Unknown error"
errorMessage(rej) == IF rej.isError THEN rej.message ELSE "Unknown error"

\* A plausible slip: a failed fetch also clears the data shown.
rejectedClearsData(s, k, rej) ==
    IF ~s.fetches[k].aborted
    THEN [s EXCEPT !.error = errorMessage(rej), !.data = Undefined]
    ELSE s

\* catch (err) { if (!abortController.signal.aborted) { setError(...); } }
rejected(s, k, rej) ==
    IF ~s.fetches[k].aborted
    THEN [s EXCEPT !.error = errorMessage(rej)]
    ELSE s

\* finally { if (!abortController.signal.aborted) { setLoading(false); }
\*           abortControllerRef.current = null; }
\* after which load() number k has returned.
finally(s, k) ==
    [ (IF ~s.fetches[k].aborted THEN [s EXCEPT !.loading = FALSE] ELSE s)
      EXCEPT !.ref = Null, !.fetches = MapDelete(s.fetches, k) ]

\* setLocation(next), up to its return.
setLocationHandler(s, next) ==
    LET a == IF s.ref # Null THEN [abortCurrent(s) EXCEPT !.ref = Null] ELSE s
    IN  IF next # NoLocation
        THEN [a EXCEPT !.loading = TRUE]
        ELSE [a EXCEPT !.data = Undefined, !.loading = FALSE, !.error = NoError]

\* useEffect(() => { load(); return () => { abort ref.current }; }, [load]):
\* load is re-created exactly when `location` changed (Object.is), and then
\* the previous effect's cleanup runs, followed by the new load().
effect(s, prev, next, t) ==
    IF next # prev
    THEN load(abortCurrent(s), next, t, "setLocation")
    ELSE s

(* ------------------------------ events -------------------------------- *)

\* The entry getCachedWeather would find for id at time t is there and not
\* older than the freshness window.
Fresh(c, id, t) == id \in DOMAIN c /\ t - c[id].timestamp <= CACHE_DURATION

\* The record of an event: the operation, the fetch (or bundle) it concerns,
\* the location id it concerns, whether the cache held a fresh entry for that
\* id when it began, and `flag`: for resolve/reject, the fetch's token was not
\* aborted; for setLocation, the location changed and so the effect re-ran;
\* for get and set, the map held an entry for the id.
Event(op, tok, id, fresh, flag) ==
    [op |-> op, tok |-> tok, id |-> id, fresh |-> fresh, flag |-> flag]

\* The hook state s becomes the state of the program.
Commit(s) ==
    /\ data' = s.data
    /\ loading' = s.loading
    /\ error' = s.error
    /\ abortControllerRef' = s.ref
    /\ fetches' = s.fetches
    /\ issued' = s.issued
    /\ cache' = s.cache

Started(s) == IF s.issued > issued THEN s.issued ELSE Null

\* The text of the search field and the terms searched are sequences of
\* characters; "" is << >>.
EmptyText == << >>

\* No debounce timer is pending.
NoTimeout == << >>

\* The record of an event of the search panel: the operation, the search it
\* concerns (or Null), and `flag`: for a response, the list was empty; for a
\* call of performSearch, a search was started.
SearchEvent(op, tok, flag) == [op |-> op, tok |-> tok, flag |-> flag]

\* App's search state after the mount effects ran: the query effect found an
\* empty query.
SearchMounted ==
    /\ query = EmptyText
    /\ searching = FALSE
    /\ searchResults = << >>
    /\ searchError = NoError
    /\ lastSearchQueryRef = EmptyText
    /\ timeout = NoTimeout
    /\ searches = [ k \in {} |-> [term |-> EmptyText] ]
    /\ searchIssued = 0
    /\ searchLast = SearchEvent("mount", Null, FALSE)

\* useWeather() as App calls it (no initialLocation), after the mount effect
\* ran load() with no location; cache.ts freshly loaded.
Mounted ==
    /\ location = NoLocation
    /\ data = Undefined
    /\ loading = FALSE
    /\ error = NoError
    /\ abortControllerRef = Null
    /\ fetches = [ k \in {} |-> NewFetch(NoLocation, "mount") ]
    /\ issued = 0
    /\ cache = EmptyMap
    /\ now = 0
    /\ ret = Undefined
    /\ stored = EmptyMap
    /\ latest = [by |-> "mount", tok |-> Null]
    /\ last = Event("mount", Null, NoLocation.id, FALSE, FALSE)
    /\ SearchMounted

\* No function of the view layer is being called.
Init ==
    /\ Mounted
    /\ args = << >>
    /\ result = << >>

\* The presentation layer calls setLocation(next); React re-renders and runs
\* the effect.
setLocation(next) ==
    LET s == effect(setLocationHandler(HookState, next), location, next, now)
    IN  /\ s.issued <= MaxFetches
        /\ location' = next
        /\ Commit(s)
        /\ latest' = [by |-> "setLocation", tok |-> Started(s)]
        /\ last' = Event("setLocation", Started(s), next.id,
                         Fresh(cache, next.id, now), next # location)
        /\ UNCHANGED << now, ret, stored >>

\* setLocation(next) is called with the search panel left alone (the
\* "Change location" button calls setLocation(undefined)).
SetLocation(next) ==
    /\ setLocation(next)
    /\ UNCHANGED << viewVars, searchVars >>

\* The presentation layer calls refresh(), which is load().
Refresh ==
    LET s == load(HookState, location, now, "refresh")
    IN  /\ s.issued <= MaxFetches
        /\ Commit(s)
        /\ latest' = [by |-> "refresh", tok |-> Started(s)]
        /\ last' = Event("refresh", Started(s), location.id,
                         Fresh(cache, location.id, now), TRUE)
        /\ UNCHANGED << location, now, ret, stored, viewVars, searchVars >>

\* fetchWeather of load() number k resolves (with bundle k); load() resumes.
Resolve(k) ==
    /\ k \in DOMAIN fetches
    /\ Commit(finally(resolved(HookState, k, now), k))
    /\ stored' = IF fetches[k].aborted THEN stored
                 ELSE MapSet(stored, fetches[k].location.id,
                             [data |-> k, timestamp |-> now])
    /\ last' = Event("resolve", k, fetches[k].location.id, FALSE,
                     ~fetches[k].aborted)
    /\ UNCHANGED << location, now, ret, latest, viewVars, searchVars >>

\* fetchWeather of load() number k rejects with rej; load() resumes in catch.
Reject(k, rej) ==
    /\ k \in DOMAIN fetches
    /\ Commit(finally(rejected(HookState, k, rej), k))
    /\ last' = Event("reject", k, fetches[k].location.id, FALSE,
                     ~fetches[k].aborted)
    /\ UNCHANGED << location, now, ret, stored, latest, viewVars, searchVars >>

\* Time passes: Date.now() moves on to a later instant of T.
Tick(T) ==
    /\ \E t \in T : t > now /\ now' = t
    /\ last' = Event("tick", Null, NoLocation.id, FALSE, FALSE)
    /\ UNCHANGED << ctlVars, cache, ret, stored, latest, viewVars, searchVars >>

Next ==
    \/ \E next \in Locations \cup {NoLocation} : SetLocation(next)
    \/ Refresh
    \/ \E k \in 1..MaxFetches : Resolve(k)
    \/ \E k \in 1..MaxFetches, rej \in Rejections : Reject(k, rej)
    \/ Tick(Instants)

Spec == Init /\ [][Next]_vars

\* fetchWeather of load() number k settles, one way or the other.
Settle(k) == Resolve(k) \/ \E rej \in Rejections : Reject(k, rej)

\* The hook while mounted, every fetchWeather call settling eventually.
\* Nothing obliges the user to call setLocation or refresh, nor time to pass.
FairSpec == Spec /\ \A k \in 1..MaxFetches : WF_vars(Settle(k))

(* ------------------- the cache module, called directly ----------------- *)

\* getCachedWeather(id)
Get(id) ==
    LET got == getCachedWeather(cache, id, now)
    IN  /\ ret' = got.ret
        /\ cache' = got.cache
        /\ last' = Event("get", Null, id, Fresh(cache, id, now), id \in DOMAIN cache)
        /\ UNCHANGED << ctlVars, now, stored, latest, viewVars, searchVars >>

\* setCachedWeather(id, b)
Set(id, b) ==
    /\ cache' = setCachedWeather(cache, id, b, now)
    /\ stored' = MapSet(stored, id, [data |-> b, timestamp |-> now])
    /\ last' = Event("set", b, id, Fresh(cache, id, now), id \in DOMAIN cache)
    /\ UNCHANGED << ctlVars, now, ret, latest, viewVars, searchVars >>

\* clearCache()
Clear ==
    /\ cache' = clearCache(cache)
    /\ stored' = EmptyMap
    /\ last' = Event("clear", Null, NoLocation.id, FALSE, FALSE)
    /\ UNCHANGED << ctlVars, now, ret, latest, viewVars, searchVars >>

\* clearExpiredCache()
ClearExpired ==
    /\ cache' = clearExpiredCache(cache, now)
    /\ last' = Event("clearExpired", Null, NoLocation.id, FALSE, FALSE)
    /\ UNCHANGED << ctlVars, now, ret, stored, latest, viewVars, searchVars >>

NextCache ==
    \/ \E id \in LocationIds : Get(id)
    \/ \E id \in LocationIds, b \in Bundles : Set(id, b)
    \/ Clear
    \/ ClearExpired
    \/ Tick(Times)

SpecCache == Init /\ [][NextCache]_vars

(* ------------------------ App.tsx: the search panel -------------------- *)

\* Number of searchLocations calls a behaviour may issue.
MaxSearches == 3

\* String.prototype.trim on a sequence of characters.
RECURSIVE trimStart(_)
trimStart(text) ==
    IF text # << >> /\ Head(text) = " " THEN trimStart(Tail(text)) ELSE text

RECURSIVE trimEnd(_)
trimEnd(text) ==
    IF text # << >> /\ text[Len(text)] = " "
    THEN trimEnd(SubSeq(text, 1, Len(text) - 1))
    ELSE text

trim(text) == trimEnd(trimStart(text))

\* Location.name of the locations of the model.
locationName(l) == IF l.id = "berlin" THEN << "b" >> ELSE << "t" >>

\* What the user can have typed into the search field.
Queries == { << >>, << " " >>, << "b" >>, << "b", " " >>, << "t" >> }

\* Lists searchLocations can resolve with.
SearchResponses ==
    { << >>,
      << [id |-> "berlin", obj |-> "o1"] >>,
      << [id |-> "berlin", obj |-> "o2"], [id |-> "tokyo", obj |-> "o3"] >> }

\* Values searchLocations can reject with: the Error it throws for a
\* response that is not ok, or a thrown value that is no Error.
SearchRejections ==
    { [isError |-> TRUE,  message |-> "Failed to fetch locations"],
      [isError |-> FALSE, message |-> "<not an Error>"] }

\* A plausible slip: an empty list is shown without a message.
afterResultsSilent(err, results) == err

\* if (!results.length) { setSearchError("No matching locations found"); }
afterResults(err, results) ==
    IF Len(results) = 0 THEN "No matching locations found" ELSE err

\* err instanceof Error ? err.message : "Failed to search locations"
searchErrorMessage(rej) ==
    IF rej.isError THEN rej.message ELSE "Failed to search locations"

\* performSearch(term, force), up to its return or to its suspension at
\* `await searchLocations(normalized)`.
performSearch(term, force) ==
    LET normalized == trim(term)
    IN  IF normalized = EmptyText
        THEN /\ searchResults' = << >>
             /\ searchError' = NoError
             /\ lastSearchQueryRef' = EmptyText
             /\ UNCHANGED << searching, searches, searchIssued >>
        ELSE IF ~force /\ normalized = lastSearchQueryRef
        THEN UNCHANGED << searchResults, searchError, lastSearchQueryRef,
                          searching, searches, searchIssued >>
        ELSE /\ searchIssued < MaxSearches
             /\ lastSearchQueryRef' = normalized
             /\ searching' = TRUE
             /\ searchError' = NoError
             /\ searchIssued' = searchIssued + 1
             /\ searches' = MapSet(searches, searchIssued + 1,
                                   [term |-> normalized])
             /\ UNCHANGED searchResults

\* The search this step started, or Null.
SearchStarted == IF searchIssued' > searchIssued THEN searchIssued' ELSE Null

\* The timer left by the query effect for the query `next`, the previous
\* effect's cleanup having cleared the timer it had set.
debounce(next) ==
    IF trim(next) = EmptyText THEN NoTimeout ELSE << trim(next) >>

\* The user edits the search field: setQuery(next); React re-renders and
\* runs the query effect.
SetQuery(next) ==
    /\ next # query
    /\ query' = next
    /\ timeout' = debounce(next)
    /\ IF trim(next) = EmptyText
       THEN /\ searchResults' = << >>
            /\ searchError' = NoError
            /\ lastSearchQueryRef' = EmptyText
       ELSE UNCHANGED << searchResults, searchError, lastSearchQueryRef >>
    /\ searchLast' = SearchEvent("setQuery", Null, FALSE)
    /\ UNCHANGED << searching, searches, searchIssued, hookVars, viewVars >>

\* 400 ms passed since the query effect ran: performSearch(normalized).
Timeout ==
    /\ timeout # NoTimeout
    /\ performSearch(timeout[1], FALSE)
    /\ timeout' = NoTimeout
    /\ searchLast' = SearchEvent("timeout", SearchStarted, SearchStarted # Null)
    /\ UNCHANGED << query, hookVars, viewVars >>

\* The user presses Search or submits the field: handleSearch().
HandleSearch ==
    /\ IF trim(query) = EmptyText
       THEN /\ searchResults' = << >>
            /\ searchError' = "Enter a city name to search"
            /\ UNCHANGED << lastSearchQueryRef, searching, searches,
                            searchIssued >>
       ELSE performSearch(query, TRUE)
    /\ searchLast' = SearchEvent("handleSearch", SearchStarted,
                                 SearchStarted # Null)
    /\ UNCHANGED << query, timeout, hookVars, viewVars >>

\* The user presses a listed candidate: handleLocationSelect(candidate);
\* React re-renders and runs the effects of the hook and of the query.
HandleLocationSelect(candidate) ==
    /\ \E i \in 1..Len(searchResults) : searchResults[i] = candidate
    /\ query' = locationName(candidate)
    /\ setLocation(candidate)
    /\ searchResults' = << >>
    /\ searchError' = NoError
    /\ lastSearchQueryRef' = trim(locationName(candidate))
    /\ timeout' = IF locationName(candidate) # query
                  THEN debounce(locationName(candidate))
                  ELSE timeout
    /\ searchLast' = SearchEvent("handleLocationSelect", Null, FALSE)
    /\ UNCHANGED << searching, searches, searchIssued, viewVars >>

\* searchLocations of performSearch number k resolves with results;
\* performSearch resumes.
SearchResolve(k, results) ==
    /\ k \in DOMAIN searches
    /\ searchResults' = results
    /\ searchError' = afterResults(searchError, results)
    /\ searching' = FALSE
    /\ searches' = MapDelete(searches, k)
    /\ searchLast' = SearchEvent("resolve", k, Len(results) = 0)
    /\ UNCHANGED << query, lastSearchQueryRef, timeout, searchIssued,
                    hookVars, viewVars >>

\* searchLocations of performSearch number k rejects with rej; performSearch
\* resumes in catch.
SearchReject(k, rej) ==
    /\ k \in DOMAIN searches
    /\ searchError' = searchErrorMessage(rej)
    /\ searching' = FALSE
    /\ searches' = MapDelete(searches, k)
    /\ searchLast' = SearchEvent("reject", k, FALSE)
    /\ UNCHANGED << query, searchResults, lastSearchQueryRef, timeout,
                    searchIssued, hookVars, viewVars >>

NextSearch ==
    \/ \E next \in Queries : SetQuery(next)
    \/ Timeout
    \/ HandleSearch
    \/ \E candidate \in Locations : HandleLocationSelect(candidate)
    \/ \E k \in 1..MaxSearches, results \in SearchResponses :
           SearchResolve(k, results)
    \/ \E k \in 1..MaxSearches, rej \in SearchRejections : SearchReject(k, rej)
    \/ \E k \in 1..MaxFetches : Resolve(k)
    \/ \E k \in 1..MaxFetches, rej \in Rejections : Reject(k, rej)

SpecSearch == Init /\ [][NextSearch]_vars

(* --------------------- App.tsx: the hourly day groups ------------------ *)

\* Times of the view layer are minutes on the device's local clock, counted
\* from a local midnight.
MinutesPerDay == 24 * 60

\* hourly.interval() of the forecast response: one hour.
Interval == 60

\* dayKey(date): the date's local year, month and day of month, written
\* "YYYY-MM-DD".  The model names that calendar day by its number, which the
\* three fields determine and are determined by.
dayKey(date) == date \div MinutesPerDay

\* fetchWeather: hourly.time is `length` Dates, `Interval` apart, from start.
hourlyTimes(start, length) == [ i \in 1..length |-> start + (i - 1) * Interval ]

\* The row hourlyDays builds for index i of the hourly arrays (its forecast
\* values are the columns' values at i, which the row's index stands for).
HourlyPoint(time, i) == [ time |-> time[i], index |-> i ]

\* The body of hourlyDays' forEach: append the row to the group of its day,
\* creating the group and recording its key in `order` on first sight.
groupPoint(acc, point) ==
    LET key == dayKey(point.time)
    IN  IF key \in DOMAIN acc.groups
        THEN [ groups |-> [ acc.groups EXCEPT ![key] = Append(@, point) ],
               order  |-> acc.order ]
        ELSE [ groups |-> (key :> << point >>) @@ acc.groups,
               order  |-> Append(acc.order, key) ]

RECURSIVE forEachTime(_, _, _, _)
\* data.hourly.time.forEach(...) over the indexes lo..hi in ascending order,
\* from acc: the lower half first, then the upper half from what that left
\* (the test of `lower` has it computed before the upper half is begun).
forEachTime(time, lo, hi, acc) ==
    IF lo > hi THEN acc
    ELSE IF lo = hi THEN groupPoint(acc, HourlyPoint(time, lo))
    ELSE LET mid == (lo + hi) \div 2
             lower == forEachTime(time, lo, mid, acc)
         IN  IF Len(lower.order) > 0
             THEN forEachTime(time, mid + 1, hi, lower)
             ELSE lower

\* A plausible slip: the sample taken exactly at `now` is dropped too.
fromCurrentTimeStrict(points, currentTime) ==
    SelectSeq(points, LAMBDA point : point.time > currentTime)

\* points.filter((point) => point.time >= currentTime)
fromCurrentTime(points, currentTime) ==
    SelectSeq(points, LAMBDA point : point.time >= currentTime)

\* A plausible slip: the current day's group is not cut at now.
dayGroupUncut(grouped, key, currentTime) ==
    [ key |-> key, points |-> grouped.groups[key] ]

\* One element of hourlyDays' order.map(...): the group of `key`, cut to the
\* rows from currentTime on when it is the current day's.  (label and
\* subtitle are texts derived from points[0] and are left out.)
dayGroup(grouped, key, currentTime) ==
    [ key    |-> key,
      points |-> IF key = dayKey(currentTime)
                 THEN fromCurrentTime(grouped.groups[key], currentTime)
                 ELSE grouped.groups[key] ]

\* A plausible slip: a day whose rows are all filtered away is dropped.
hourlyDaysDropsEmpty(d) ==
    LET grouped == forEachTime(d.hourly.time, 1, Len(d.hourly.time),
                               [ groups |-> << >>, order |-> << >> ])
        days == [ n \in 1..Len(grouped.order) |->
                      dayGroup(grouped, grouped.order[n], d.current.time) ]
    IN  SelectSeq(days, LAMBDA day : day.points # << >>)

\* hourlyDays, for a bundle d that is present (without one it is []).
hourlyDays(d) ==
    LET grouped == forEachTime(d.hourly.time, 1, Len(d.hourly.time),
                               [ groups |-> << >>, order |-> << >> ])
    IN  [ n \in 1..Len(grouped.order) |->
              dayGroup(grouped, grouped.order[n], d.current.time) ]

\* Longest hourly series the day groups are computed for.
MaxPoints == 48

\* Hours of the device's day the first hourly sample falls on: the series
\* starts at the location's midnight, which the device's clock shows as any
\* hour of its own day.
StartHours == { 0, 19, 23 }

\* Bundles as fetchWeather builds them: an hourly series and the time of the
\* current snapshot, which lies on a sample, between two, before the first
\* or after the last.
WeatherDatas ==
    UNION { { [ current |-> [ time |-> h * Interval + j * (Interval \div 2) ],
                hourly  |-> [ time |-> hourlyTimes(h * Interval, n) ] ]
              : j \in (-1)..(2 * n) }
            : h \in StartHours, n \in 0..MaxPoints }

\* The view layer before it computes the day groups of a bundle.
InitHourlyDays ==
    /\ Mounted
    /\ args \in { << d >> : d \in WeatherDatas }
    /\ result = << >>

\* const hourlyDays = useMemo(...)
HourlyDays ==
    /\ result = << >>
    /\ result' = << hourlyDays(args[1]) >>
    /\ UNCHANGED << hookVars, searchVars, args >>

NextHourlyDays == HourlyDays

SpecHourlyDays == InitHourlyDays /\ [][NextHourlyDays]_vars

(* ----------------------- App.tsx: averageDirection --------------------- *)

\* Angles are whole degrees on a grid of DegreeStep; cosines and sines are
\* thousandths.  A number that may be undefined is << >> or << number >>.
DegreeStep == 10

\* Wind directions the forecast reports.
Directions == { d * DegreeStep : d \in 0..(360 \div DegreeStep - 1) }

\* 1000 * cos of 0, 10, ..., 90 degrees, to the nearest thousandth.
CosTable == << 1000, 985, 940, 866, 766, 643, 500, 342, 174, 0 >>

\* Math.cos((degrees * Math.PI) / 180), in thousandths.
MathCos(degrees) ==
    LET m == degrees % 360
        Quarter(a) == CosTable[a \div DegreeStep + 1]
    IN  IF m <= 90 THEN Quarter(m)
        ELSE IF m <= 180 THEN 0 - Quarter(180 - m)
        ELSE IF m <= 270 THEN 0 - Quarter(m - 180)
        ELSE Quarter(360 - m)

\* Math.sin((degrees * Math.PI) / 180), in thousandths.
MathSin(degrees) == MathCos(degrees - 90)

RECURSIVE sumFrom(_, _)
\* The sum a forEach or reduce accumulates over terms[i..].
sumFrom(terms, i) ==
    IF i > Len(terms) THEN 0 ELSE terms[i] + sumFrom(terms, i + 1)

\* The angles Math.atan2 returns, in degrees: (-180, 180].
Atan2Range == { d * DegreeStep : d \in (1 - 180 \div DegreeStep)..(180 \div DegreeStep) }

\* (Math.atan2(y, x) * 180) / Math.PI to the nearest grid angle: the angles
\* whose direction is nearest that of (x, y); both of two equally near ones.
\* When the components cancel, rounding noise decides the angle: any.
MathAtan2(y, x) ==
    IF x = 0 /\ y = 0 THEN Atan2Range
    ELSE { d \in Atan2Range :
             \A e \in Atan2Range :
                 x * MathCos(d) + y * MathSin(d) >= x * MathCos(e) + y * MathSin(e) }

\* A plausible slip: the arithmetic mean of the angles.
averageDirectionLinear(values) ==
    IF values = << >> THEN { << >> }
    ELSE { << sumFrom(values, 1) \div Len(values) >> }

\* averageDirection(values): the values it can return.  x and y are the
\* sums of the cosines and sines; atan2 is taken of y / n and x / n, whose
\* direction is that of (x, y).
averageDirection(values) ==
    IF values = << >> THEN { << >> }
    ELSE LET x == sumFrom([ i \in 1..Len(values) |-> MathCos(values[i]) ], 1)
             y == sumFrom([ i \in 1..Len(values) |-> MathSin(values[i]) ], 1)
         IN  { << (degrees + 360) % 360 >> : degrees \in MathAtan2(y, x) }

\* Longest series of directions averaged.
MaxDirections == 2

RECURSIVE SeqsUpTo(_, _)
\* The sequences over S of length at most n.
SeqsUpTo(S, n) ==
    IF n = 0 THEN { << >> }
    ELSE LET shorter == SeqsUpTo(S, n - 1)
         IN  shorter \cup { Append(q, v) : q \in shorter, v \in S }

InitAverageDirection ==
    /\ Mounted
    /\ args \in { << values >> : values \in SeqsUpTo(Directions, MaxDirections) }
    /\ result = << >>

\* averageDirection(values) is called and returns.
AverageDirection ==
    /\ result = << >>
    /\ result' \in { << r >> : r \in averageDirection(args[1]) }
    /\ UNCHANGED << hookVars, searchVars, args >>

NextAverageDirection == AverageDirection

SpecAverageDirection == InitAverageDirection /\ [][NextAverageDirection]_vars

(* ------------------- App.tsx: resolvePrecipitationType ----------------- *)

PRECIP_TYPE_CONFIG ==
    << [ key |-> "rain",     label |-> "Rain",    color |-> "#0a84ff" ],
       [ key |-> "showers",  label |-> "Showers", color |-> "#5ac8fa" ],
       [ key |-> "snowfall", label |-> "Snow",    color |-> "#bf5af2" ] >>

PRECIP_MIXED_TYPE == [ key |-> "mixed", label |-> "Mixed", color |-> "#ffd60a" ]

PRECIP_DRY_TYPE == [ key |-> "dry", label |-> "No precip.", color |-> "#8e8e93" ]

\* type.accessor(source): each type reads the field of the source named by
\* its key.
accessor(type, source) == source[type.key]

\* { ...type, amount }
withAmount(type, amount) ==
    [ key |-> type.key, label |-> type.label, color |-> type.color,
      amount |-> amount ]

RECURSIVE forEachTypeLastWins(_, _, _)
forEachTypeLastWins(source, i, current) ==
    IF i > Len(PRECIP_TYPE_CONFIG) THEN current
    ELSE LET type == PRECIP_TYPE_CONFIG[i]
             value == accessor(type, source)
         IN  forEachTypeLastWins(source, i + 1,
                 IF value >= current.amount THEN withAmount(type, value)
                 ELSE current)

RECURSIVE forEachType(_, _, _)
\* PRECIP_TYPE_CONFIG.forEach(...) from type i on.
forEachType(source, i, current) ==
    IF i > Len(PRECIP_TYPE_CONFIG) THEN current
    ELSE LET type == PRECIP_TYPE_CONFIG[i]
             value == accessor(type, source)
         IN  forEachType(source, i + 1,
                 IF value > current.amount THEN withAmount(type, value)
                 ELSE current)

\* The rest of resolvePrecipitationType, after the forEach left its pick `current`.
resolveFrom(source, current) ==
    IF current.amount > 0 THEN current
    ELSE IF source.precipitation > 0
         THEN withAmount(PRECIP_MIXED_TYPE, source.precipitation)
         ELSE current

\* A plausible slip: a later type replaces an earlier one of the same amount.
resolvePrecipitationTypeLastWins(source) ==
    resolveFrom(source, forEachTypeLastWins(source, 1, withAmount(PRECIP_DRY_TYPE, 0)))

\* resolvePrecipitationType(source)
resolvePrecipitationType(source) ==
    resolveFrom(source, forEachType(source, 1, withAmount(PRECIP_DRY_TYPE, 0)))

\* Largest amount of a precipitation field, in tenths of a unit.
MaxAmount == 2

PrecipitationSources ==
    [ precipitation : 0..MaxAmount, rain : 0..MaxAmount,
      showers : 0..MaxAmount, snowfall : 0..MaxAmount ]

InitResolvePrecipitationType ==
    /\ Mounted
    /\ args \in { << source >> : source \in PrecipitationSources }
    /\ result = << >>

\* resolvePrecipitationType(source) is called and returns.
ResolvePrecipitationType ==
    /\ result = << >>
    /\ result' = << resolvePrecipitationType(args[1]) >>
    /\ UNCHANGED << hookVars, searchVars, args >>

NextResolvePrecipitationType == ResolvePrecipitationType

SpecResolvePrecipitationType ==
    InitResolvePrecipitationType /\ [][NextResolvePrecipitationType]_vars

(* --------------------- App.tsx: formatAQI, getAQIColor ----------------- *)

\* An index value is a number of halves, NaN or absent (null or undefined).
AqiNumber(halves) == [ kind |-> "number", halves |-> halves ]

AqiNaN == [ kind |-> "NaN", halves |-> 0 ]

AqiAbsent == [ kind |-> "undefined", halves |-> 0 ]

\* value == null || Number.isNaN(value)
isMissing(value) == value.kind # "number"

\* Math.round of a number of halves: the nearest integer, a half going up.
MathRound(halves) == (halves + 1) \div 2

\* The text that is a single em dash (U+2014).
EmDash == "-"

\* formatAQI(value).  The text `${aqi} (Band)` is the pair << aqi, Band >>
\* and the em dash is << EmDash >>.
formatAQI(value) ==
    IF isMissing(value) THEN << EmDash >>
    ELSE LET aqi == MathRound(value.halves)
         IN  IF aqi <= 20 THEN << aqi, "Good" >>
             ELSE IF aqi <= 40 THEN << aqi, "Fair" >>
             ELSE IF aqi <= 60 THEN << aqi, "Moderate" >>
             ELSE IF aqi <= 80 THEN << aqi, "Poor" >>
             ELSE IF aqi <= 100 THEN << aqi, "Very Poor" >>
             ELSE << aqi, "Extremely Poor" >>

\* A plausible slip: the colour is chosen from the index cut to an integer.
getAQIColorTruncating(value) ==
    IF isMissing(value) THEN "#8e8e93"
    ELSE LET aqi == value.halves \div 2
         IN  IF aqi <= 20 THEN "#74c476"
             ELSE IF aqi <= 40 THEN "#41ab5d"
             ELSE IF aqi <= 60 THEN "#ffd54f"
             ELSE IF aqi <= 80 THEN "#ffb74d"
             ELSE IF aqi <= 100 THEN "#ff7043"
             ELSE "#d32f2f"

\* getAQIColor(value)
getAQIColor(value) ==
    IF isMissing(value) THEN "#8e8e93"
    ELSE LET aqi == MathRound(value.halves)
         IN  IF aqi <= 20 THEN "#74c476"
             ELSE IF aqi <= 40 THEN "#41ab5d"
             ELSE IF aqi <= 60 THEN "#ffd54f"
             ELSE IF aqi <= 80 THEN "#ffb74d"
             ELSE IF aqi <= 100 THEN "#ff7043"
             ELSE "#d32f2f"

\* Largest index the two functions are called with.
MaxAqi == 101

AqiValues == { AqiNumber(h) : h \in 0..(2 * MaxAqi) } \cup { AqiNaN, AqiAbsent }

InitAqi ==
    /\ Mounted
    /\ args \in { << value >> : value \in AqiValues }
    /\ result = << >>

\* formatAQI(value) is called and returns the label.
FormatAQI ==
    /\ "label" \notin DOMAIN result
    /\ result' = MapSet(result, "label", formatAQI(args[1]))
    /\ UNCHANGED << hookVars, searchVars, args >>

\* getAQIColor(value) is called and returns the colour.
GetAQIColor ==
    /\ "color" \notin DOMAIN result
    /\ result' = MapSet(result, "color", << getAQIColor(args[1]) >>)
    /\ UNCHANGED << hookVars, searchVars, args >>

NextAqi ==
    \/ FormatAQI
    \/ GetAQIColor

SpecAqi == InitAqi /\ [][NextAqi]_vars

(* ------------------ components/LineChart.tsx: the scale ---------------- *)

\* Chart values are hundredths, so that a tenth of a range of halves is
\* exact; 1 is Unit hundredths.
Unit == 100

\* height (default), padding.top and padding.bottom.
height == 220

paddingTop == 24

paddingBottom == 36

chartHeight == height - paddingTop - paddingBottom

\* The band valueToY draws in: y grows downwards.
bandTop == paddingTop

bandBottom == paddingTop + chartHeight

\* Math.min(...values) and Math.max(...values) of a non-empty array.
MathMin(values) ==
    CHOOSE v \in { values[i] : i \in 1..Len(values) } :
        \A i \in 1..Len(values) : v <= values[i]

MathMax(values) ==
    CHOOSE v \in { values[i] : i \in 1..Len(values) } :
        \A i \in 1..Len(values) : v >= values[i]

RECURSIVE flatten(_)
\* The numbers of a sequence of optional numbers, in order.
flatten(options) ==
    IF options = << >> THEN << >> ELSE Head(options) \o flatten(Tail(options))

\* combinedValues: the primary values, then (with showSecondary) the
\* secondary values that are present.  A point's secondary is << >> or
\* << number >>.
combinedValues(points, showSecondary) ==
    LET primaryValues == [ i \in 1..Len(points) |-> points[i].value ]
        secondaryValues == IF showSecondary
                           THEN [ i \in 1..Len(points) |-> points[i].secondary ]
                           ELSE << >>
    IN  IF Len(secondaryValues) # 0
        THEN primaryValues \o flatten(secondaryValues)
        ELSE primaryValues

\* A plausible slip: a flat series is widened upwards only.
widenFlatUpOnly(rawMin, rawMax) ==
    IF rawMin = rawMax
    THEN [ min |-> rawMin, max |-> rawMax + 1 * Unit ]
    ELSE LET paddingRange == (rawMax - rawMin) \div 10
         IN  [ min |-> rawMin - paddingRange, max |-> rawMax + paddingRange ]

\* The widening of the raw range, before the lower bound is floored.
widen(rawMin, rawMax) ==
    IF rawMin = rawMax
    THEN IF rawMin = 0
         THEN [ min |-> rawMin, max |-> 1 * Unit ]
         ELSE [ min |-> rawMin - 1 * Unit, max |-> rawMax + 1 * Unit ]
    ELSE LET paddingRange == (rawMax - rawMin) \div 10
         IN  [ min |-> rawMin - paddingRange, max |-> rawMax + paddingRange ]

\* A plausible slip: a padded lower bound is left below 0 over data that
\* is not.
scaleNoFloor(values) == widen(MathMin(values), MathMax(values))

\* A plausible slip: a flat series is not widened.
scaleKeepsFlat(values) ==
    LET rawMin == MathMin(values)
        rawMax == MathMax(values)
        w == IF rawMin = rawMax THEN [ min |-> rawMin, max |-> rawMax ]
             ELSE widen(rawMin, rawMax)
    IN  IF w.min < 0 /\ rawMin >= 0 THEN [ w EXCEPT !.min = 0 ] ELSE w

\* rawMin, rawMax, min and max of LineChart.
scale(values) ==
    LET rawMin == MathMin(values)
        rawMax == MathMax(values)
        w == widen(rawMin, rawMax)
    IN  IF w.min < 0 /\ rawMin >= 0 THEN [ w EXCEPT !.min = 0 ] ELSE w

\* valueToY(value) under the range s: the coordinate num / den, where
\* ratio = (clampedValue - min) / (max - min || 1).
valueToY(value, s) ==
    LET lower == IF value > s.min THEN value ELSE s.min
        clampedValue == IF lower < s.max THEN lower ELSE s.max
        den == IF s.max - s.min # 0 THEN s.max - s.min ELSE 1 * Unit
    IN  [ num |-> (paddingTop + chartHeight) * den
                      - (clampedValue - s.min) * chartHeight,
          den |-> den ]

\* What LineChart draws: nothing for no points, else the range and the
\* coordinates of the primary and of the present secondary values.
LineChart(points, showSecondary) ==
    IF Len(points) = 0
    THEN [ blank |-> TRUE, min |-> 0, max |-> 0,
           polyline |-> << >>, secondaryPolyline |-> << >> ]
    ELSE LET s == scale(combinedValues(points, showSecondary))
             present == flatten([ i \in 1..Len(points) |-> points[i].secondary ])
         IN  [ blank |-> FALSE, min |-> s.min, max |-> s.max,
               polyline |->
                   [ i \in 1..Len(points) |-> valueToY(points[i].value, s) ],
               secondaryPolyline |->
                   IF showSecondary
                   THEN [ i \in 1..Len(present) |-> valueToY(present[i], s) ]
                   ELSE << >> ]

\* Most points a chart is drawn for.
MaxChartPoints == 2

\* Values charted: -1, 0, 0.5, 1 and 2.
ChartValues == { v * (Unit \div 2) : v \in { -2, 0, 1, 2, 4 } }

LineChartPoints ==
    [ value : ChartValues, secondary : { << >> } \cup { << v >> : v \in ChartValues } ]

InitLineChart ==
    /\ Mounted
    /\ args \in { << points, showSecondary >> :
                    points \in SeqsUpTo(LineChartPoints, MaxChartPoints),
                    showSecondary \in BOOLEAN }
    /\ result = << >>

\* LineChart({points, showSecondary}) renders.
RenderLineChart ==
    /\ result = << >>
    /\ result' = << LineChart(args[1], args[2]) >>
    /\ UNCHANGED << hookVars, searchVars, args >>

NextLineChart == RenderLineChart

SpecLineChart == InitLineChart /\ [][NextLineChart]_vars

(* --------------- App.tsx: the hourly section of the screen ------------- *)

\* Math.min() of no argument; Math.max() of none is its negative.  A value
\* above every finite value of the model.
Infinity == 1000000

\* Math.min(...values), Math.max(...values) of a possibly empty array.
spreadMin(values) == IF values = << >> THEN Infinity ELSE MathMin(values)

spreadMax(values) == IF values = << >> THEN 0 - Infinity ELSE MathMax(values)

\* sumArray(values)
sumArray(values) == sumFrom(values, 1)

\* averageArray(values): total / values.length as the fraction num / den.
averageArray(values) ==
    IF Len(values) = 0 THEN [ num |-> 0, den |-> 1 ]
    ELSE [ num |-> sumArray(values), den |-> Len(values) ]

\* array.splice(at, 0, item)
splice(array, at, item) ==
    SubSeq(array, 1, at) \o << item >> \o SubSeq(array, at + 1, Len(array))

RECURSIVE countCodes(_, _, _)
\* weatherCodes.forEach(...): codeCounts as the codes in the order they
\* were first set (the order a Map iterates in) and the count of each.
countCodes(weatherCodes, i, codeCounts) ==
    IF i > Len(weatherCodes) THEN codeCounts
    ELSE LET code == weatherCodes[i]
         IN  countCodes(weatherCodes, i + 1,
                 IF code \in DOMAIN codeCounts.count
                 THEN [ codeCounts EXCEPT !.count[code] = @ + 1 ]
                 ELSE [ keys  |-> Append(codeCounts.keys, code),
                        count |-> MapSet(codeCounts.count, code, 1) ])

RECURSIVE forEachCountLastWins(_, _, _)
\* A plausible slip: a later code of the same count replaces the pick.
forEachCountLastWins(codeCounts, i, picked) ==
    IF i > Len(codeCounts.keys) THEN picked
    ELSE LET code == codeCounts.keys[i]
             count == codeCounts.count[code]
         IN  forEachCountLastWins(codeCounts, i + 1,
                 IF count >= picked.maxCount
                 THEN [ mostCommonCode |-> << code >>, maxCount |-> count ]
                 ELSE picked)

RECURSIVE forEachCount(_, _, _)
\* codeCounts.forEach((count, code) => ...) from entry i on; picked is
\* [ mostCommonCode, maxCount ].
forEachCount(codeCounts, i, picked) ==
    IF i > Len(codeCounts.keys) THEN picked
    ELSE LET code == codeCounts.keys[i]
             count == codeCounts.count[code]
         IN  forEachCount(codeCounts, i + 1,
                 IF count > picked.maxCount
                 THEN [ mostCommonCode |-> << code >>, maxCount |-> count ]
                 ELSE picked)

\* mostCommonCode of chartSeries: << code >>, or << >> for undefined.
mostCommonCode(weatherCodes) ==
    forEachCount(countCodes(weatherCodes, 1, [ keys |-> << >>, count |-> << >> ]),
                 1,
                 [ mostCommonCode |-> IF weatherCodes = << >> THEN << >>
                                      ELSE << weatherCodes[1] >>,
                   maxCount |-> 0 ]).mostCommonCode

\* The column `field` of a day's points.
column(points, field) == [ i \in 1..Len(points) |-> points[i][field] ]

emptySeries == [ points |-> << >>, summaries |-> << >> ]

\* chartSeries, given the value avgDirection that averageDirection returned.
\* activeDay is << >> (undefined) or << day >>.  A summary's value is the
\* number the code formats into its text.
chartSeries(activeDay, activeHourlyTab, avgDirection) ==
    IF activeDay = << >> \/ activeHourlyTab # "summary" THEN emptySeries
    ELSE
    LET points == activeDay[1].points
        temperatures == column(points, "temperature_2m")
        rain == column(points, "rain")
        windSpeeds == column(points, "wind_speed_10m")
        totalShowers == sumArray(column(points, "showers"))
        totalSnow == sumArray(column(points, "snowfall"))
        base ==
            << [ label |-> "Weather",
                 value |-> mostCommonCode(column(points, "weather_code")) ],
               [ label |-> "Temp min", value |-> spreadMin(temperatures) ],
               [ label |-> "Temp max", value |-> spreadMax(temperatures) ],
               [ label |-> "Temp avg", value |-> averageArray(temperatures) ],
               [ label |-> "Feels like avg",
                 value |-> averageArray(column(points, "apparent_temperature")) ],
               [ label |-> "Humidity avg",
                 value |-> averageArray(column(points, "relative_humidity_2m")) ],
               [ label |-> "Total precip.",
                 value |-> sumArray(column(points, "precipitation")) ],
               [ label |-> "Total rain", value |-> sumArray(rain) ],
               [ label |-> "Peak rain", value |-> spreadMax(rain) ],
               [ label |-> "Max rain prob.",
                 value |-> spreadMax(column(points, "precipitation_probability")) ],
               [ label |-> "Wind avg", value |-> averageArray(windSpeeds) ],
               [ label |-> "Wind max", value |-> spreadMax(windSpeeds) ],
               [ label |-> "Wind direction", value |-> avgDirection ] >>
        withShowers ==
            IF totalShowers > 0
            THEN splice(base, 8, [ label |-> "Total showers", value |-> totalShowers ])
            ELSE base
        summaries ==
            IF totalSnow > 0
            THEN splice(withShowers, 9, [ label |-> "Total snow", value |-> totalSnow ])
            ELSE withShowers
    IN  [ points |-> << >>, summaries |-> summaries ]

\* weatherChartData  (the texts label and weatherIcon are left out).
weatherChartData(activeDay) ==
    IF activeDay = << >> THEN << >>
    ELSE LET points == activeDay[1].points
         IN  [ i \in 1..Len(points) |->
                 LET point == points[i]
                     aqiValue == point.european_aqi
                 IN  [ temperature   |-> point.temperature_2m,
                       apparent      |-> point.apparent_temperature,
                       precipitation |-> point.precipitation,
                       precipType    |-> resolvePrecipitationType(
                                             [ precipitation |-> point.precipitation,
                                               rain          |-> point.rain,
                                               showers       |-> point.showers,
                                               snowfall      |-> point.snowfall ]),
                       probability   |-> point.precipitation_probability,
                       windSpeed     |-> point.wind_speed_10m,
                       aqi           |-> aqiValue,
                       aqiLabel      |-> IF aqiValue.kind # "undefined"
                                         THEN << formatAQI(aqiValue) >> ELSE << >>,
                       aqiColor      |-> IF aqiValue.kind # "undefined"
                                         THEN << getAQIColor(aqiValue) >> ELSE << >> ] ]

\* weatherSummaries
weatherSummaries(activeDay) ==
    IF activeDay = << >> THEN << >>
    ELSE LET points == activeDay[1].points
             temps == column(points, "temperature_2m")
             windSpeeds == column(points, "wind_speed_10m")
         IN  << [ label |-> "Temp range",
                  value |-> << spreadMin(temps), spreadMax(temps) >> ],
                [ label |-> "Total precip.",
                  value |-> sumArray(column(points, "precipitation")) ],
                [ label |-> "Max precip prob.",
                  value |-> spreadMax(column(points, "precipitation_probability")) ],
                [ label |-> "Wind avg", value |-> averageArray(windSpeeds) ],
                [ label |-> "Wind max", value |-> spreadMax(windSpeeds) ] >>

\* What the hourly section shows below its tabs: the summary cards, the
\* composite chart with its cards, or the text "Not enough hourly data.".
hourlySection(activeDay, activeHourlyTab, avgDirection) ==
    LET series == chartSeries(activeDay, activeHourlyTab, avgDirection)
        chart == weatherChartData(activeDay)
        nothing == [ shows |-> "Not enough hourly data.",
                     summaries |-> << >>, data |-> << >> ]
    IN  IF activeHourlyTab = "summary"
        THEN IF Len(series.summaries) > 0
             THEN [ shows |-> "summaryRow", summaries |-> series.summaries,
                    data |-> << >> ]
             ELSE nothing
        ELSE IF Len(chart) # 0
             THEN [ shows |-> "WeatherCompositeChart",
                    summaries |-> weatherSummaries(activeDay), data |-> chart ]
             ELSE nothing

HOURLY_TABS == { "summary", "weather" }

\* Hourly rows of a forecast: a clear hour, a rainy one, a snowy one.
HourlyRows ==
    { [ temperature_2m |-> 20, apparent_temperature |-> 19,
        relative_humidity_2m |-> 50, precipitation |-> 0, rain |-> 0,
        showers |-> 0, snowfall |-> 0, wind_speed_10m |-> 10,
        precipitation_probability |-> 0, wind_direction_10m |-> 350,
        weather_code |-> 0, european_aqi |-> AqiAbsent ],
      [ temperature_2m |-> 15, apparent_temperature |-> 14,
        relative_humidity_2m |-> 90, precipitation |-> 3, rain |-> 2,
        showers |-> 1, snowfall |-> 0, wind_speed_10m |-> 20,
        precipitation_probability |-> 80, wind_direction_10m |-> 10,
        weather_code |-> 61, european_aqi |-> AqiNumber(41) ],
      [ temperature_2m |-> 0 - 1, apparent_temperature |-> 0 - 5,
        relative_humidity_2m |-> 80, precipitation |-> 2, rain |-> 0,
        showers |-> 0, snowfall |-> 2, wind_speed_10m |-> 5,
        precipitation_probability |-> 60, wind_direction_10m |-> 180,
        weather_code |-> 71, european_aqi |-> AqiNumber(180) ] }

\* Most points of the active day.
MaxDayPoints == 3

\* hourlyDays[selectedDayIndex]: no day, or a day of some points (none when
\* the cut at now left none).
ActiveDays ==
    { << >> } \cup { << [ key |-> 0, points |-> points ] >> :
                       points \in SeqsUpTo(HourlyRows, MaxDayPoints) }

InitHourlySection ==
    /\ Mounted
    /\ args \in { << activeDay, tab >> : activeDay \in ActiveDays, tab \in HOURLY_TABS }
    /\ result = << >>

\* App renders the hourly section for activeDay and activeHourlyTab.
RenderHourlySection ==
    /\ result = << >>
    /\ \E avgDirection \in
            averageDirection(IF args[1] = << >> THEN << >>
                             ELSE column(args[1][1].points, "wind_direction_10m")) :
           result' = << hourlySection(args[1], args[2], avgDirection) >>
    /\ UNCHANGED << hookVars, searchVars, args >>

NextHourlySection == RenderHourlySection

SpecHourlySection == InitHourlySection /\ [][NextHourlySection]_vars

(* ----------------------- App.tsx: formatDirection ---------------------- *)

\* A bearing is a number of half degrees, NaN or absent.
Bearing(halves) == [ kind |-> "number", halves |-> halves ]

directions == << "N", "NE", "E", "SE", "S", "SW", "W", "NW" >>

\* directions[index]: undefined outside the table.
directionAt(index) ==
    IF index \in 0..(Len(directions) - 1) THEN directions[index + 1]
    ELSE "undefined"

\* A plausible slip: the sector is cut, not rounded.
formatDirectionFloor(value) ==
    IF isMissing(value) THEN << EmDash >>
    ELSE LET index == (value.halves \div 90) % Len(directions)
         IN  << directionAt(index), MathRound(value.halves) >>

\* formatDirection(value).  Math.round(value / 45) of h half degrees is
\* the nearest integer to h / 90, a half going up.  The text
\* `${direction} (${degrees}°)` is the pair << direction, degrees >>.
formatDirection(value) ==
    IF isMissing(value) THEN << EmDash >>
    ELSE LET index == ((value.halves + 45) \div 90) % Len(directions)
         IN  << directionAt(index), MathRound(value.halves) >>

\* Largest whole bearing formatted (and the half degree above it).
MaxBearing == 359

BearingValues ==
    { Bearing(h) : h \in 0..(2 * MaxBearing + 1) } \cup { AqiNaN, AqiAbsent }

InitFormatDirection ==
    /\ Mounted
    /\ args \in { << value >> : value \in BearingValues }
    /\ result = << >>

\* formatDirection(value) is called and returns.
FormatDirection ==
    /\ result = << >>
    /\ result' = << formatDirection(args[1]) >>
    /\ UNCHANGED << hookVars, searchVars, args >>

NextFormatDirection == FormatDirection

SpecFormatDirection == InitFormatDirection /\ [][NextFormatDirection]_vars

(* ---------- components/WeatherCompositeChart.tsx: the bars ------------- *)

\* Precipitation amounts and wind speeds are counted in tenths; a
\* coordinate is a fraction [num, den] of a pixel.
Tenth == 10

compositePadding == [ top |-> 68, right |-> 24, bottom |-> 56, left |-> 24 ]

sectionSpacing == 32

tempHeight == 140

precipHeight == 160

windHeight == 120

tempTop == compositePadding.top

tempBottom == tempTop + tempHeight

precipTop == tempBottom + sectionSpacing

precipBottom == precipTop + precipHeight

windTop == precipBottom + sectionSpacing

windBottom == windTop + windHeight

\* Math.max(...data.map((item) => item.precipitation), 0.2)
precipMax(items) ==
    MathMax([ i \in 1..Len(items) |-> items[i].precipitation ] \o << (2 * Tenth) \div 10 >>)

\* precipValueToY(value): ratio = Math.min(1, value / (precipMax || 1)), the
\* coordinate precipBottom - ratio * (precipBottom - precipTop - 16).
precipValueToY(value, max) ==
    LET den == IF max = 0 THEN Tenth ELSE max
        ratio == IF den <= value THEN den ELSE value
    IN  [ num |-> precipBottom * den - ratio * (precipBottom - precipTop - 16),
          den |-> den ]

\* Math.max(...windValues, 1)
windMax(items) ==
    MathMax([ i \in 1..Len(items) |-> items[i].windSpeed ] \o << Tenth >>)

\* windValueToY(value): ratio = value / windMax, the coordinate
\* windBottom - ratio * (windBottom - windTop - 12).
windValueToY(value, max) ==
    [ num |-> windBottom * max - value * (windBottom - windTop - 12),
      den |-> max ]

\* <Rect y={barTop} height={Math.max(4, barHeight)} />, barHeight being
\* baseline - barTop.
rect(barTop, baseline) ==
    LET barHeight == baseline * barTop.den - barTop.num
    IN  [ y |-> barTop,
          height |-> [ num |-> IF 4 * barTop.den >= barHeight
                               THEN 4 * barTop.den ELSE barHeight,
                       den |-> barTop.den ] ]

\* The precipitation bars: << >> for an item that draws none.
precipitationBars(items) ==
    [ i \in 1..Len(items) |->
        IF items[i].precipitation <= 0 THEN << >>
        ELSE << rect(precipValueToY(items[i].precipitation, precipMax(items)),
                     precipBottom - 16) >> ]

\* The wind bars: << >> for an item that draws none.
windBars(items) ==
    [ i \in 1..Len(items) |->
        IF items[i].windSpeed <= 0 THEN << >>
        ELSE << rect(windValueToY(items[i].windSpeed, windMax(items)),
                     windBottom - 12) >> ]

\* WeatherCompositeChart({ data }): the bars it draws; none for no data.
WeatherCompositeChart(items) ==
    IF Len(items) = 0
    THEN [ precipitation |-> << >>, wind |-> << >> ]
    ELSE [ precipitation |-> precipitationBars(items), wind |-> windBars(items) ]

\* Number of points of a composite chart.
MaxCompositePoints == 2

\* Precipitation amounts (0, 0.1, 0.2, 1 and 5 mm) and wind speeds (0, 0.5,
\* 1 and 20 km/h) of the points, in tenths.
PrecipitationValues == { 0, 1, 2, 10, 50 }

WindSpeedValues == { 0, 5, 10, 200 }

CompositeData ==
    SeqsUpTo([ precipitation : PrecipitationValues, windSpeed : WindSpeedValues ],
             MaxCompositePoints)

InitCompositeChart ==
    /\ Mounted
    /\ args \in { << items >> : items \in CompositeData }
    /\ result = << >>

\* WeatherCompositeChart is rendered with the data.
RenderCompositeChart ==
    /\ result = << >>
    /\ result' = << WeatherCompositeChart(args[1]) >>
    /\ UNCHANGED << hookVars, searchVars, args >>

NextCompositeChart == RenderCompositeChart

SpecCompositeChart == InitCompositeChart /\ [][NextCompositeChart]_vars

(* ------------------------------ claims --------------------------------- *)

\* The fetches in flight whose cancellation token has not been aborted.
Live == { k \in DOMAIN fetches : ~fetches[k].aborted }

Settles(k) == last'.op \in {"resolve", "reject"} /\ last'.tok = k

\* C1: in every reachable state at most one fetch whose cancellation token
\* has not been aborted is in flight: every fetch in flight other than the
\* one started last has had its token aborted.
C1_AtMostOneLiveFetch ==
    /\ Cardinality(Live) <= 1
    /\ \A k \in DOMAIN fetches : k < issued => fetches[k].aborted

\* C3: when a fetch whose token has been aborted resolves or rejects, that
\* completion leaves data, loading, error and the cache as they were.
C3_AbortedCompletionDiscarded ==
    [][ \A k \in DOMAIN fetches :
            (Settles(k) /\ fetches[k].aborted)
                => UNCHANGED << data, loading, error, cache >> ]_vars

\* An aborted fetch has resolved while another bundle (or none) was shown.
C3_Witness ==
    /\ last.op = "resolve"
    /\ ~last.flag
    /\ data # last.tok
    /\ last.id \notin DOMAIN cache

\* C4: whenever no location is selected, data and error are absent and
\* loading is false.
C4_IdleIsEmpty ==
    location = NoLocation
        => (data = Undefined /\ error = NoError /\ loading = FALSE)

\* C2: when setLocation is called again while the fetch of an earlier
\* setLocation call is in flight, the earlier fetch is cancelled, its
\* completion changes nothing, and the completion of the later call's fetch
\* alone decides data, loading and error.
C2_SecondSetLocationWins ==
    [][ /\ \A k1 \in DOMAIN fetches :
              ( /\ latest.by = "setLocation"
                /\ latest.tok > k1
                /\ fetches[k1].by = "setLocation" )
              => /\ fetches[k1].aborted
                 /\ Settles(k1) => UNCHANGED << data, loading, error >>
        /\ ( /\ latest.by = "setLocation"
             /\ latest.tok \in DOMAIN fetches
             /\ Settles(latest.tok) )
           => /\ loading' = FALSE
              /\ last'.op = "resolve" => (data' = latest.tok /\ error' = NoError)
              /\ last'.op = "reject"
                    => (error' # NoError /\ data' = data)
      ]_vars

\* C5: when a fetch whose token was not aborted resolves, then right after
\* it data is the fetched bundle, loading is false, error is absent and the
\* cache holds the bundle under the id of the location it was fetched for.
C5_LiveResolveIsReady ==
    [][ \A k \in DOMAIN fetches :
            (last'.op = "resolve" /\ last'.tok = k /\ ~fetches[k].aborted)
            => /\ data' = k
               /\ loading' = FALSE
               /\ error' = NoError
               /\ fetches[k].location.id \in DOMAIN cache'
               /\ cache'[fetches[k].location.id].data = k ]_vars

\* C6: when a fetch whose token was not aborted rejects, the controller
\* takes the failure in: error becomes the failure message (the Error's
\* message, or "Unknown error" for a value that is no Error), loading becomes
\* false, data keeps its value and the cache is not written.
C6_LiveRejectIsFailed ==
    [][ \A k \in DOMAIN fetches, r \in Rejections :
            (Reject(k, r) /\ ~fetches[k].aborted)
            => /\ error' = (IF r.isError THEN r.message ELSE "Unknown error")
               /\ loading' = FALSE
               /\ data' = data
               /\ cache' = cache ]_vars

\* A fetch that was not aborted has rejected while a bundle was shown: the
\* bundle is still shown, next to the message.
C6_Witness ==
    /\ last.op = "reject"
    /\ last.flag
    /\ data # Undefined
    /\ error = "Network request failed"
    /\ loading = FALSE

\* C7: when a location is set and the cache holds a fresh entry for its id,
\* the controller is Ready with the cached bundle right away and no fetch is
\* issued.
C7_CacheHitShortCircuits ==
    [][ (last'.op = "setLocation" /\ last'.id # NoLocation.id /\ last'.fresh)
        => /\ data' = cache[last'.id].data
           /\ loading' = FALSE
           /\ error' = NoError
           /\ issued' = issued ]_vars

\* C8: refresh() with a location selected always issues a new fetch, also
\* when the cache holds a fresh entry for the location.
C8_RefreshAlwaysFetches ==
    [][ (last'.op = "refresh" /\ location # NoLocation)
        => /\ issued' = issued + 1
           /\ issued' \in DOMAIN fetches'
           /\ fetches'[issued'].location = location
           /\ ~fetches'[issued'].aborted ]_vars

\* C9: getCachedWeather(id) returns absent exactly when the map has no entry
\* for id or the entry is more than CACHE_DURATION old, and the stored bundle
\* otherwise; it deletes the entry in the stale case and leaves the map alone
\* in every other case.
C9_GetCachedWeather ==
    [][ \A id \in LocationIds :
            Get(id) =>
                LET absent == id \notin DOMAIN cache
                    stale  == ~absent /\ now - cache[id].timestamp > 10 * 60 * 1000
                IN  /\ (ret' = Undefined) <=> (absent \/ stale)
                    /\ ~(absent \/ stale) => ret' = cache[id].data
                    /\ stale => /\ DOMAIN cache' = DOMAIN cache \ {id}
                                /\ \A j \in DOMAIN cache' : cache'[j] = cache[j]
                    /\ ~stale => cache' = cache ]_vars

\* getCachedWeather has just found a stale entry: it returned absent and the
\* entry is gone.
C9_Witness ==
    /\ last.op = "get"
    /\ last.flag
    /\ ~last.fresh
    /\ ret = Undefined
    /\ last.id \notin DOMAIN cache

\* C10 as claimed: a bundle stored at time t is returned at every time
\* before t + 10 minutes and absent at every time from t + 10 minutes on,
\* t + 10 minutes included.
C10_AbsentFromTenMinutes ==
    [][ \A id \in LocationIds :
            (Get(id) /\ id \in DOMAIN stored) =>
                LET e == stored[id]
                IN  /\ now < e.timestamp + 10 * 60 * 1000 => ret' = e.data
                    /\ now >= e.timestamp + 10 * 60 * 1000 => ret' = Undefined ]_vars

\* C10, amended: a bundle stored at time t is returned at every time up to
\* and including t + 10 minutes and absent at every later time.
C10_AbsentAfterTenMinutes ==
    [][ \A id \in LocationIds :
            (Get(id) /\ id \in DOMAIN stored) =>
                LET e == stored[id]
                IN  /\ now <= e.timestamp + 10 * 60 * 1000 => ret' = e.data
                    /\ now > e.timestamp + 10 * 60 * 1000 => ret' = Undefined ]_vars

\* getCachedWeather has just returned a bundle exactly 10 minutes after it
\* was stored.
C10_Witness ==
    /\ last.op = "get"
    /\ last.id \in DOMAIN stored
    /\ now = stored[last.id].timestamp + 10 * 60 * 1000
    /\ ret = stored[last.id].data
    /\ ret # Undefined

\* C11: setCachedWeather(id, bundle) at time t leaves the entry (bundle, t)
\* under id, whatever was there before, and leaves every other key's entry
\* as it was (no key is added or removed besides id).
C11_SetOverwrites ==
    [][ \A id \in LocationIds, b \in Bundles :
            Set(id, b) =>
                /\ DOMAIN cache' = DOMAIN cache \cup {id}
                /\ cache'[id].data = b
                /\ cache'[id].timestamp = now
                /\ \A j \in DOMAIN cache \ {id} : cache'[j] = cache[j] ]_vars

\* setCachedWeather has just replaced a stale entry holding another bundle,
\* with another key's entry in the map.
C11_Witness ==
    /\ last.op = "set"
    /\ last.flag
    /\ ~last.fresh
    /\ cache[last.id] = [data |-> last.tok, timestamp |-> now]
    /\ stored[last.id] = cache[last.id]
    /\ DOMAIN cache # {last.id}

\* The rows of the hourly series `time` that fall on day `key`, in input order.
RowsOfDay(time, key) ==
    SelectSeq([ i \in 1..Len(time) |-> HourlyPoint(time, i) ],
              LAMBDA point : dayKey(point.time) = key)

Computed == result # << >>

\* C12: in the day groups of any hourly series, the group of now's day holds
\* exactly that day's samples taken at or after now (one taken exactly at now
\* included) in input order, and every other group holds all of its day's
\* samples, unchanged.
C12_TodayFromNowOthersWhole ==
    Computed =>
        LET time == args[1].hourly.time
            currentTime == args[1].current.time
            days == result[1]
        IN  \A n \in 1..Len(days) :
                days[n].points =
                    IF days[n].key = dayKey(currentTime)
                    THEN SelectSeq(RowsOfDay(time, days[n].key),
                                   LAMBDA point : point.time >= currentTime)
                    ELSE RowsOfDay(time, days[n].key)

\* Today's group lost samples before now, kept the one taken exactly at now,
\* and a later day kept all 24 of its samples.
C12_Witness ==
    /\ Computed
    /\ LET time == args[1].hourly.time
           currentTime == args[1].current.time
           days == result[1]
       IN  \E n, m \in 1..Len(days) :
               /\ days[n].key = dayKey(currentTime)
               /\ days[n].points # << >>
               /\ days[n].points[1].time = currentTime
               /\ Len(days[n].points) < Len(RowsOfDay(time, days[n].key))
               /\ days[m].key # dayKey(currentTime)
               /\ Len(days[m].points) = 24

\* C13: the first day group of the output holds no sample taken before now.
C13_FirstGroupFromNow ==
    (Computed /\ result[1] # << >>) =>
        \A i \in 1..Len(result[1][1].points) :
            result[1][1].points[i].time >= args[1].current.time

\* The index of the first sample of `time` that falls on day `key`.
FirstIndex(time, key) ==
    CHOOSE i \in 1..Len(time) :
        /\ dayKey(time[i]) = key
        /\ \A j \in 1..(i - 1) : dayKey(time[j]) # key

\* C20: the day groups are one per distinct day key of the input, in the order
\* of each key's first sample; a sample is found in the group of its own day
\* only, in input order; a group stays in the output when the cut at now
\* leaves it no sample.
C20_OneGroupPerDayInOrder ==
    Computed =>
        LET time == args[1].hourly.time
            days == result[1]
        IN  /\ { days[n].key : n \in 1..Len(days) }
                   = { dayKey(time[i]) : i \in 1..Len(time) }
            /\ \A n, m \in 1..Len(days) :
                   n < m => /\ days[n].key # days[m].key
                            /\ FirstIndex(time, days[n].key)
                                   < FirstIndex(time, days[m].key)
            /\ \A n \in 1..Len(days) :
                   LET points == days[n].points
                   IN  /\ \A i \in 1..Len(points) :
                              /\ points[i] = HourlyPoint(time, points[i].index)
                              /\ dayKey(points[i].time) = days[n].key
                       /\ \A i, j \in 1..Len(points) :
                              i < j => points[i].index < points[j].index

\* Three days were grouped and today's group, cut at now, is empty but kept.
C20_Witness ==
    /\ Computed
    /\ Len(result[1]) = 3
    /\ \E n \in 1..Len(result[1]) :
           /\ result[1][n].key = dayKey(args[1].current.time)
           /\ result[1][n].points = << >>
    /\ \E n \in 1..Len(result[1]) : Len(result[1][n].points) = 24

\* C19: averageDirection of a non-empty series returns an angle in [0, 360)
\* that is the circular mean: a series repeating one direction averages to
\* that direction, and [350, 10] averages to 0, not to 180.
C19_CircularMean ==
    (Computed /\ args[1] # << >>) =>
        LET values == args[1]
            mean == result[1]
        IN  /\ Len(mean) = 1
            /\ mean[1] >= 0
            /\ mean[1] < 360
            /\ (\A i \in 1..Len(values) : values[i] = values[1]) => mean[1] = values[1]
            /\ values = << 350, 10 >> => mean[1] = 0

C19_Witness ==
    /\ args = << << 350, 10 >> >>
    /\ result = << << 0 >> >>

\* C15: resolvePrecipitationType reports the sub-type with the largest amount
\* when that amount is above 0, the earlier of rain, showers, snowfall on a
\* tie, with that amount; when all three are 0 it reports 'mixed' with the
\* precipitation amount if that is above 0, and otherwise 'dry' with amount 0.
C15_LargestSubTypeElseMixedElseDry ==
    Computed =>
        LET source == args[1]
            out == result[1]
            keys == << "rain", "showers", "snowfall" >>
            largest == CHOOSE a \in { source[keys[i]] : i \in 1..3 } :
                           \A i \in 1..3 : source[keys[i]] <= a
            first == CHOOSE i \in 1..3 :
                         /\ source[keys[i]] = largest
                         /\ \A j \in 1..(i - 1) : source[keys[j]] # largest
        IN  IF largest > 0
            THEN out.key = keys[first] /\ out.amount = largest
            ELSE IF source.precipitation > 0
                 THEN out.key = "mixed" /\ out.amount = source.precipitation
                 ELSE out.key = "dry" /\ out.amount = 0

\* Showers and snowfall tie above rain and showers, the earlier, is reported.
C15_Witness ==
    /\ Computed
    /\ args[1].rain < args[1].showers
    /\ args[1].showers = args[1].snowfall
    /\ result[1].key = "showers"
    /\ result[1].amount = args[1].snowfall

\* The six bands in ascending order, and the band of an integer index: one
\* band up for each of the thresholds 20, 40, 60, 80, 100 it exceeds.
AqiBands == << "Good", "Fair", "Moderate", "Poor", "Very Poor", "Extremely Poor" >>

BandOfIndex(aqi) ==
    AqiBands[1 + Cardinality({ t \in { 20, 40, 60, 80, 100 } : aqi > t })]

\* The band each display colour stands for.
BandOfColor(color) ==
    CASE color = "#74c476" -> "Good"
      [] color = "#41ab5d" -> "Fair"
      [] color = "#ffd54f" -> "Moderate"
      [] color = "#ffb74d" -> "Poor"
      [] color = "#ff7043" -> "Very Poor"
      [] color = "#d32f2f" -> "Extremely Poor"
      [] OTHER -> "unknown"

\* C16: the label's band is that of the index rounded to the nearest integer
\* under the thresholds 20/40/60/80/100 (15 is Good, 45 is Moderate); an
\* absent or NaN index gives the unknown sentinel; and the colour's band is
\* always the label's band.
C16_AqiBands ==
    LET value == args[1]
        labelled == "label" \in DOMAIN result
        coloured == "color" \in DOMAIN result
    IN  /\ (labelled /\ value.kind = "number") =>
               LET aqi == result.label[1]
               IN  /\ Len(result.label) = 2
                   /\ 2 * aqi - 1 <= value.halves
                   /\ value.halves <= 2 * aqi
                   /\ result.label[2] = BandOfIndex(aqi)
                   /\ value.halves = 2 * 15 => result.label[2] = "Good"
                   /\ value.halves = 2 * 45 => result.label[2] = "Moderate"
        /\ (labelled /\ value.kind # "number") => result.label = << EmDash >>
        /\ (coloured /\ value.kind # "number") =>
               BandOfColor(result.color[1]) = "unknown"
        /\ (labelled /\ coloured /\ value.kind = "number") =>
               BandOfColor(result.color[1]) = result.label[2]

\* An index of 20.5 was rounded up into Fair, for the label and the colour.
C16_Witness ==
    /\ args[1] = AqiNumber(41)
    /\ DOMAIN result = { "label", "color" }
    /\ result.label = << 21, "Fair" >>
    /\ result.color = << "#41ab5d" >>

\* A coordinate num / den with den > 0 lies in the band.
InBand(y) ==
    /\ y.den > 0
    /\ bandTop * y.den <= y.num
    /\ y.num <= bandBottom * y.den

\* Values at, between and beyond the values charted.
ProbeValues == { v * (Unit \div 2) : v \in (-6)..8 }

\* C17: for a non-empty series the range has max > min, holds every input,
\* has min >= 0 when the smallest input is >= 0, and valueToY sends every
\* value, inside the range or not, into the band, a larger value never to a
\* larger coordinate.
C17_ScaleHoldsInputsInBand ==
    (Computed /\ args[1] # << >>) =>
        LET values == combinedValues(args[1], args[2])
            drawn == result[1]
            s == [ min |-> drawn.min, max |-> drawn.max ]
        IN  /\ ~drawn.blank
            /\ s.max > s.min
            /\ \A i \in 1..Len(values) : s.min <= values[i] /\ values[i] <= s.max
            /\ (\A i \in 1..Len(values) : values[i] >= 0) => s.min >= 0
            /\ \A i \in 1..Len(drawn.polyline) : InBand(drawn.polyline[i])
            /\ \A i \in 1..Len(drawn.secondaryPolyline) :
                   InBand(drawn.secondaryPolyline[i])
            /\ \A v \in ProbeValues : InBand(valueToY(v, s))
            /\ \A v, w \in ProbeValues :
                   v <= w => valueToY(v, s).num * valueToY(w, s).den
                                 >= valueToY(w, s).num * valueToY(v, s).den

\* A range padded below 0 over data from 0 up was floored at 0, and both
\* lines were drawn.
C17_Witness ==
    /\ Computed
    /\ ~result[1].blank
    /\ args[2]
    /\ Len(result[1].secondaryPolyline) = Len(args[1])
    /\ result[1].min = 0
    /\ result[1].max > 2 * Unit
    /\ \E i \in 1..Len(args[1]) : args[1][i].value = 0

\* C18: when every input is 0 the range is [0, 1], the mapping divides by
\* max - min = 1, and every point's coordinate is the bottom of the band.
C18_AllZero ==
    (Computed /\ args[1] # << >>
        /\ \A i \in 1..Len(combinedValues(args[1], args[2])) :
               combinedValues(args[1], args[2])[i] = 0) =>
        LET drawn == result[1]
        IN  /\ drawn.min = 0
            /\ drawn.max = 1 * Unit
            /\ \A i \in 1..Len(drawn.polyline) :
                   /\ drawn.polyline[i].den = drawn.max - drawn.min
                   /\ drawn.polyline[i].num = bandBottom * drawn.polyline[i].den
            /\ \A i \in 1..Len(drawn.secondaryPolyline) :
                   /\ drawn.secondaryPolyline[i].den = drawn.max - drawn.min
                   /\ drawn.secondaryPolyline[i].num
                          = bandBottom * drawn.secondaryPolyline[i].den

\* Two points at 0 were drawn on the bottom line.
C18_Witness ==
    /\ Computed
    /\ Len(args[1]) = 2
    /\ ~args[2]
    /\ \A i \in 1..2 : args[1][i].value = 0
    /\ Len(result[1].polyline) = 2
    /\ \A i \in 1..2 : result[1].polyline[i].num = bandBottom * result[1].polyline[i].den

\* C14: when the active day has no points, the summary view and the
\* composite-chart view both show "Not enough hourly data." and no statistics.
C14_EmptyDayShowsSentinel ==
    (Computed /\ args[1] # << >> /\ args[1][1].points = << >>) =>
        /\ result[1].shows = "Not enough hourly data."
        /\ result[1].summaries = << >>

\* The bundle of the end-to-end example: 48 hourly samples, 24 on each of
\* two calendar days, and the current snapshot taken at the 6th sample.
TwoDaysNowAtSixth ==
    LET time == args[1].hourly.time
    IN  /\ Len(time) = 48
        /\ dayKey(time[1]) = dayKey(time[24])
        /\ dayKey(time[25]) = dayKey(time[48])
        /\ dayKey(time[24]) # dayKey(time[25])
        /\ args[1].current.time = time[6]

\* C21 as stated: for that bundle there are exactly 2 day groups and the
\* first has 43 points.
C21_FirstGroupHas43 ==
    (Computed /\ TwoDaysNowAtSixth) =>
        /\ Len(result[1]) = 2
        /\ Len(result[1][1].points) = 43

\* C21: for that bundle there are exactly 2 day groups; the first has the
\* 19 samples of day 1 from the 6th on (24 minus the 5 before now) and the
\* second the 24 samples of day 2, 43 in all.
C21_FirstGroupHas19 ==
    (Computed /\ TwoDaysNowAtSixth) =>
        /\ Len(result[1]) = 2
        /\ Len(result[1][1].points) = 19
        /\ result[1][1].points[1].index = 6
        /\ Len(result[1][2].points) = 24
        /\ result[1][2].points[1].index = 25

C21_Witness ==
    /\ Computed
    /\ TwoDaysNowAtSixth
    /\ Len(result[1]) = 2
    /\ Len(result[1][1].points) + Len(result[1][2].points) = 43

\* How often `code` occurs in `codes`, and where it occurs first.
Occurrences(codes, code) == Cardinality({ i \in 1..Len(codes) : codes[i] = code })

FirstAt(codes, code) ==
    CHOOSE i \in 1..Len(codes) :
        codes[i] = code /\ \A j \in 1..(i - 1) : codes[j] # code

\* C22: for a day with points, the summary's weather code is one of the
\* day's codes of the highest count, and of several with that count the one
\* that occurs first in the day's points.
C22_ModalCodeFirstOnTie ==
    (Computed /\ args[2] = "summary" /\ args[1] # << >>
        /\ args[1][1].points # << >>) =>
        LET codes == column(args[1][1].points, "weather_code")
            weather == result[1].summaries[1]
        IN  /\ weather.label = "Weather"
            /\ Len(weather.value) = 1
            /\ \E i \in 1..Len(codes) : codes[i] = weather.value[1]
            /\ \A i \in 1..Len(codes) :
                   \/ Occurrences(codes, codes[i]) < Occurrences(codes, weather.value[1])
                   \/ /\ Occurrences(codes, codes[i]) = Occurrences(codes, weather.value[1])
                      /\ FirstAt(codes, weather.value[1]) <= FirstAt(codes, codes[i])

\* Three codes occur once each, and the first of the day, which is neither
\* the smallest nor the largest, is the one reported.
C22_Witness ==
    /\ Computed
    /\ args[2] = "summary"
    /\ args[1] # << >>
    /\ column(args[1][1].points, "weather_code") = << 61, 0, 71 >>
    /\ result[1].summaries[1].value = << 61 >>

\* The chart was drawn for a flat series: every combined value is the same.
Flat ==
    /\ Computed
    /\ args[1] # << >>
    /\ \A i \in 1..Len(combinedValues(args[1], args[2])) :
           combinedValues(args[1], args[2])[i] = combinedValues(args[1], args[2])[1]

\* C23 as stated: a flat series of value v # 0 has the range [v - 1, v + 1],
\* and one of value 0 the range [0, 1].
C23_FlatWidenedByOne ==
    Flat =>
        LET v == combinedValues(args[1], args[2])[1]
        IN  IF v = 0
            THEN result[1].min = 0 /\ result[1].max = 1 * Unit
            ELSE result[1].min = v - 1 * Unit /\ result[1].max = v + 1 * Unit

\* C23: a flat series of value v has the range [v - 1, v + 1] when v < 0 or
\* v >= 1, the range [0, v + 1] when 0 < v < 1 (the lower bound is floored at
\* 0 over data that is not negative), and the range [0, 1] when v = 0.
C23_FlatWidenedAndFloored ==
    Flat =>
        LET v == combinedValues(args[1], args[2])[1]
        IN  /\ result[1].max = v + 1 * Unit
            /\ result[1].min = IF v >= 0 /\ v < 1 * Unit THEN 0 ELSE v - 1 * Unit

\* A flat series of 0.5 was given the range [0, 1.5].
C23_Witness ==
    /\ Flat
    /\ combinedValues(args[1], args[2])[1] = Unit \div 2
    /\ result[1].min = 0
    /\ result[1].max = Unit + Unit \div 2

\* The 8 compass points, and the distance on the circle, in half degrees,
\* between a bearing and the compass point number i (0 is N, 1 is NE, ...).
CompassPoints == << "N", "NE", "E", "SE", "S", "SW", "W", "NW" >>

CircleDistance(halves, i) ==
    LET apart == IF halves >= 90 * i THEN halves - 90 * i ELSE 90 * i - halves
    IN  IF apart <= 720 - apart THEN apart ELSE 720 - apart

\* C24: every bearing in [0, 360) is labelled with a compass point nearest
\* to it on the circle, so bearings from 337.5 up are N, and the label is
\* always one of the table (the index is within 0..7).
C24_NearestCompassPoint ==
    (Computed /\ args[1].kind = "number" /\ args[1].halves < 720) =>
        /\ Len(result[1]) = 2
        /\ \E i \in 0..7 :
               /\ result[1][1] = CompassPoints[i + 1]
               /\ \A j \in 0..7 :
                      CircleDistance(args[1].halves, i)
                          <= CircleDistance(args[1].halves, j)
        /\ args[1].halves >= 675 => result[1][1] = "N"

\* 337.5 degrees was labelled N, the index 8 wrapping to 0.
C24_Witness ==
    /\ Computed
    /\ args[1] = Bearing(675)
    /\ result[1] = << "N", 338 >>

\* This step is the resumption of performSearch number k after its
\* searchLocations call settled.
SearchSettles(k) == k \in DOMAIN searches /\ k \notin DOMAIN searches'

\* C25: a failed search sets the search error to the failure message and
\* leaves the listed results alone; a search that found nothing sets the
\* "No matching locations found" message; neither touches the forecast
\* controller's data, loading or error.  The search error is cleared when a
\* search starts and when the query becomes empty, the forecast error
\* staying as it is.
C25_SearchErrorSeparate ==
    [][ /\ \A k \in 1..MaxSearches :
               SearchSettles(k) =>
                   /\ UNCHANGED << location, data, loading, error >>
                   /\ searchLast'.op = "reject" =>
                          /\ searchError' \in { "Failed to fetch locations",
                                                "Failed to search locations" }
                          /\ UNCHANGED << searchResults, query >>
                   /\ (searchLast'.op = "resolve" /\ searchResults' = << >>) =>
                          searchError' = "No matching locations found"
        /\ searchIssued' > searchIssued =>
               searchError' = NoError /\ UNCHANGED error
        /\ (query' # query /\ trim(query') = EmptyText) =>
               searchError' = NoError /\ UNCHANGED error
      ]_vars

\* A search found nothing while the forecast controller showed an error of
\* its own.
C25_Witness ==
    /\ searchLast.op = "resolve"
    /\ searchResults = << >>
    /\ searchError = "No matching locations found"
    /\ error # NoError
    /\ location # NoLocation

\* C26: clearExpiredCache at time t removes exactly the entries with
\* t - timestamp > 10 minutes and leaves every other entry as it was, so a
\* getCachedWeather(id) call returns after the sweep what it would have
\* returned without it, for every id.
C26_SweepRemovesExactlyStale ==
    [][ last'.op = "clearExpired" =>
            /\ DOMAIN cache' =
                   { id \in DOMAIN cache :
                         ~(now - cache[id].timestamp > 10 * 60 * 1000) }
            /\ \A id \in DOMAIN cache' : cache'[id] = cache[id]
            /\ \A id \in LocationIds :
                   getCachedWeather(cache', id, now').ret
                       = getCachedWeather(cache, id, now).ret
      ]_vars

\* A sweep removed a stale entry and kept a fresh one.
C26_Witness ==
    /\ last.op = "clearExpired"
    /\ \E id \in DOMAIN stored \ DOMAIN cache :
           now - stored[id].timestamp > CACHE_DURATION
    /\ \E id \in DOMAIN cache : now - cache[id].timestamp <= CACHE_DURATION

\* Every bundle shown was stored under the id it was fetched for: `stored`
\* maps an id to the bundle of the last fetch for that id that resolved
\* without being aborted, and bundle k is fetch k's.
ShownWasFetched ==
    data # Undefined => \E id \in DOMAIN stored : stored[id].data = data

\* C27: whenever a location is selected, loading is false and data is
\* present, the data is a bundle fetched (or read from the cache) for the id
\* of the selected location, never one obtained for another location.
C27_DataOfSelectedLocation ==
    (location # NoLocation /\ ~loading /\ data # Undefined)
        => /\ location.id \in DOMAIN stored
           /\ stored[location.id].data = data

\* C28: every fetch settling eventually, whenever loading is true it
\* eventually becomes false, whatever setLocation and refresh calls are
\* made, a setLocation with the location already selected included.
C28_LoadingEnds == loading ~> ~loading

\* C29: when searches overlap and the response to the query issued last
\* has been listed, the response to an earlier, different query that arrives
\* after it, completing the last search outstanding, does not replace the
\* list: with all searches completed the results listed are those of the
\* query issued last, in whatever order the responses arrived.
C29_LatestQueryWins ==
    [][ \A k \in 1..MaxSearches :
            ( /\ searchLast.op = "resolve"
              /\ searchLast.tok = searchIssued
              /\ k < searchIssued
              /\ lastSearchQueryRef # EmptyText
              /\ searches[k].term # lastSearchQueryRef
              /\ SearchSettles(k)
              /\ DOMAIN searches' = {} )
            => searchResults' = searchResults ]_vars

\* The rectangle from y to y + height lies inside the band from top to
\* bottom.
Inside(r, top, bottom) ==
    /\ top * r.y.den <= r.y.num
    /\ r.y.num + r.height.num <= bottom * r.y.den

\* C30: every precipitation bar drawn (precipitation > 0), from barTop to
\* barTop + max(4, barHeight), lies inside the precipitation band
\* [precipTop, precipBottom], and every wind bar drawn (wind speed > 0) lies
\* inside the wind band [windTop, windBottom].
C30_BarsInsideBands ==
    Computed =>
        \A i \in 1..Len(args[1]) :
            /\ args[1][i].precipitation > 0 =>
                   /\ result[1].precipitation[i] # << >>
                   /\ Inside(result[1].precipitation[i][1], precipTop, precipBottom)
            /\ args[1][i].windSpeed > 0 =>
                   /\ result[1].wind[i] # << >>
                   /\ Inside(result[1].wind[i][1], windTop, windBottom)

====
